---- MODULE Spec2Model ----
(***************************************************************************)
(* Model of LLM-SecDB/5_run.py: the prompt-driven multi-label classifier   *)
(* client (ask_llm), its response normalisation (extract_xml_answer,       *)
(* sanitize_xml, parse_labels_from_xml, parse_ground_truth_labels), the    *)
(* thread-pool dispatch with positional result slots, the live metrics     *)
(* update and the final sequential metrics pass.                           *)
(*                                                                         *)
(* Representation: a Python str is a sequence of one-character strings;    *)
(* an Optional[str] that the code only tests for truthiness is the empty   *)
(* sequence when it is None; an Optional result slot is <<>> (None) or     *)
(* <<r>>; the error field is a TLA+ string, None being the value None.     *)
(* A Python list of labels that the code only ever turns into a set is     *)
(* kept as a sequence up to the point the code calls set() on it.          *)
(***************************************************************************)
EXTENDS Integers, Sequences, FiniteSets, TLC

(***************************************************************************)
(* Bounds of the model (not program constants).                            *)
(***************************************************************************)
MaxRecords == 2
MaxPool == 2
MaxTokens == 2

(***************************************************************************)
(* Program constants (5_run.py, CONFIG block).  Delays are in thousandths  *)
(* of a second, so that the growth factor 1.7 stays exact: 2.0 s = 2000.   *)
(***************************************************************************)
MAX_RETRIES == 4
SLEEP_BACKOFF == 2000
BackoffNum == 17
BackoffDen == 10
COUNT_NONE_AS_HIT == TRUE

None == "None"

(***************************************************************************)
(* Characters and the str methods the code uses.                           *)
(***************************************************************************)
UpperSeq == <<"A","B","C","D","E","F","G","H","I","J","K","L","M",
              "N","O","P","Q","R","S","T","U","V","W","X","Y","Z">>
LowerSeq == <<"a","b","c","d","e","f","g","h","i","j","k","l","m",
              "n","o","p","q","r","s","t","u","v","w","x","y","z">>
Uppers == {UpperSeq[k] : k \in 1..26}
Lowers == {LowerSeq[k] : k \in 1..26}
Digits == {"0","1","2","3","4","5","6","7","8","9"}
Whitespace == {" ", "\n", "\t"}

ToLower(c) == IF c \in Uppers THEN LowerSeq[CHOOSE k \in 1..26 : UpperSeq[k] = c] ELSE c

lower(s) == [k \in 1..Len(s) |-> ToLower(s[k])]

strip(s) ==
    LET keep == {k \in 1..Len(s) : s[k] \notin Whitespace}
    IN  IF keep = {} THEN <<>>
        ELSE LET lo == CHOOSE k \in keep : \A j \in keep : k <= j
                 hi == CHOOSE k \in keep : \A j \in keep : k >= j
             IN  SubSeq(s, lo, hi)

startswith(s, p) == Len(s) >= Len(p) /\ SubSeq(s, 1, Len(p)) = p

endswith(s, p) == Len(s) >= Len(p) /\ SubSeq(s, Len(s) - Len(p) + 1, Len(s)) = p

\* least index k >= from at which p occurs in s, 0 when there is none
find(s, p, from) ==
    LET occ == {k \in from..(Len(s) - Len(p) + 1) : SubSeq(s, k, k + Len(p) - 1) = p}
    IN  IF occ = {} THEN 0 ELSE CHOOSE k \in occ : \A j \in occ : k <= j

\* re.sub(r"[^...]", "", s): keep the characters of the class
keepchars(s, class) == SelectSeq(s, LAMBDA c : c \in class)

RECURSIVE split(_, _)
split(s, sep) ==
    LET k == find(s, <<sep>>, 1)
    IN  IF k = 0 THEN <<s>>
        ELSE <<SubSeq(s, 1, k - 1)>> \o split(SubSeq(s, k + 1, Len(s)), sep)

RECURSIVE replace(_, _, _)
replace(s, old, new) ==
    LET k == find(s, old, 1)
    IN  IF k = 0 THEN s
        ELSE SubSeq(s, 1, k - 1) \o new \o replace(SubSeq(s, k + Len(old), Len(s)), old, new)

\* set(list)
set(list) == {list[k] : k \in 1..Len(list)}

(***************************************************************************)
(* Literals of the program text.                                           *)
(***************************************************************************)
OpenTag == <<"<","x","m","l",">">>
CloseTag == <<"<","/","x","m","l",">">>
L_credentials == <<"c","r","e","d","e","n","t","i","a","l","s">>
L_network_identifiers == <<"n","e","t","w","o","r","k","_","i","d","e","n","t","i","f","i","e","r","s">>
L_pii == <<"p","i","i">>
L_conflict == <<"c","o","n","f","l","i","c","t">>
L_peerreview == <<"p","e","e","r","r","e","v","i","e","w">>
L_none == <<"n","o","n","e">>

ALLOWED_LABELS ==
    {L_credentials, L_network_identifiers, L_pii, L_conflict, L_peerreview, L_none}

\* XML_RE = re.compile(r"<xml>.*?</xml>", re.IGNORECASE | re.DOTALL); the
\* value is the matched span [first, last], <<0, 0>> when search finds none
XML_RE(text) ==
    LET low == lower(text)
        p == find(low, OpenTag, 1)
        q == IF p = 0 THEN 0 ELSE find(low, CloseTag, p + Len(OpenTag))
    IN  IF p = 0 \/ q = 0 THEN <<0, 0>> ELSE <<p, q + Len(CloseTag) - 1>>

extract_xml_answer(text) ==
    IF text = <<>> THEN <<>>
    ELSE LET m == XML_RE(text)
         IN  IF m[1] = 0 THEN <<>> ELSE strip(SubSeq(text, m[1], m[2]))

\* the grave accent U+0060, which a TLA+ string literal cannot hold
Backtick == "GRAVE"

\* re.sub of a leading run and of a trailing run of grave accents by ""
RECURSIVE stripticks(_)
stripticks(s) ==
    IF s # <<>> /\ Head(s) = Backtick THEN stripticks(Tail(s))
    ELSE IF s # <<>> /\ s[Len(s)] = Backtick THEN stripticks(SubSeq(s, 1, Len(s) - 1))
    ELSE s

SalvageClass == Lowers \cup Uppers \cup Digits \cup {"_", ",", "-"} \cup Whitespace

sanitize_xml(xml_text) ==
    IF xml_text = <<>> THEN <<>>
    ELSE LET t == strip(xml_text)
         IN  IF startswith(lower(t), OpenTag) /\ endswith(lower(t), CloseTag) THEN t
             ELSE LET inner == strip(keepchars(strip(stripticks(t)), SalvageClass))
                  IN  IF inner # <<>> THEN OpenTag \o inner \o CloseTag ELSE <<>>

\* the per-token normalisation shared by both label parsers
normtoken(p) ==
    keepchars(replace(lower(strip(p)), L_network_identifiers \o <<":">>, L_network_identifiers),
              Lowers \cup {"_"})

\* de-dup, preserve order
RECURSIVE dedup(_)
dedup(labels) ==
    IF labels = <<>> THEN <<>>
    ELSE LET init == dedup(SubSeq(labels, 1, Len(labels) - 1))
             l == labels[Len(labels)]
         IN  IF \E k \in 1..Len(init) : init[k] = l THEN init ELSE Append(init, l)

\* mutant: a token "none" is skipped like an unknown token
RECURSIVE xml_labels_loop_skipnone(_, _)
xml_labels_loop_skipnone(parts, labels) ==
    IF parts = <<>> THEN dedup(labels)
    ELSE LET p == normtoken(Head(parts))
         IN  IF p \in ALLOWED_LABELS /\ p # L_none
             THEN xml_labels_loop_skipnone(Tail(parts), Append(labels, p))
             ELSE xml_labels_loop_skipnone(Tail(parts), labels)

\* the for-loop of parse_labels_from_xml over the remaining parts
RECURSIVE xml_labels_loop(_, _)
xml_labels_loop(parts, labels) ==
    IF parts = <<>> THEN dedup(labels)
    ELSE LET p == normtoken(Head(parts))
         IN  IF p = <<>> THEN xml_labels_loop(Tail(parts), labels)
             ELSE IF p = L_none THEN <<>>
             ELSE IF p \in ALLOWED_LABELS /\ p # L_none
                  THEN xml_labels_loop(Tail(parts), Append(labels, p))
             ELSE xml_labels_loop(Tail(parts), labels)

parse_labels_from_xml(xml_text) ==
    LET t == strip(xml_text)
        content == strip(SubSeq(t, 6, Len(t) - 6))
    IN  IF content = <<>> THEN <<>> ELSE xml_labels_loop(split(content, ","), <<>>)

(***************************************************************************)
(* Records.  A field of a record is a JSON value: a string, some other     *)
(* JSON value (number, list, null, ...) or absent from the object.         *)
(***************************************************************************)
Str(s) == [type |-> "str", s |-> s]
NonStr == [type |-> "other", s |-> <<>>]
Missing == [type |-> "missing", s |-> <<>>]

\* rec.get(key, "")
get(rec, key) == IF rec[key].type = "missing" THEN Str(<<>>) ELSE rec[key]

\* mutant: the test "p != 'none'" is missing
RECURSIVE gt_labels_loop_allownone(_, _)
gt_labels_loop_allownone(parts, labels) ==
    IF parts = <<>> THEN dedup(labels)
    ELSE LET p == normtoken(Head(parts))
         IN  IF p \in ALLOWED_LABELS
             THEN gt_labels_loop_allownone(Tail(parts), Append(labels, p))
             ELSE gt_labels_loop_allownone(Tail(parts), labels)

\* the for-loop of parse_ground_truth_labels over the remaining parts
RECURSIVE gt_labels_loop(_, _)
gt_labels_loop(parts, labels) ==
    IF parts = <<>> THEN dedup(labels)
    ELSE LET p == normtoken(Head(parts))
         IN  IF p \in ALLOWED_LABELS /\ p # L_none
             THEN gt_labels_loop(Tail(parts), Append(labels, p))
             ELSE gt_labels_loop(Tail(parts), labels)

\* mutant: a record without classification gets the sentinel as its label
parse_ground_truth_labels_sentinel(rec) ==
    LET raw == get(rec, "classification")
    IN  IF raw.type # "str" \/ strip(raw.s) = <<>> THEN <<L_none>>
        ELSE gt_labels_loop(split(raw.s, ","), <<>>)

parse_ground_truth_labels(rec) ==
    LET raw == get(rec, "classification")
    IN  IF raw.type # "str" \/ strip(raw.s) = <<>> THEN <<>>
        ELSE gt_labels_loop(split(raw.s, ","), <<>>)


(***************************************************************************)
(* Inputs of the model: the record sequences read from INPUT_PATH and the  *)
(* outcomes of one remote request.                                         *)
(***************************************************************************)
RecA == [comments |-> Str(<<"p","w",":","x">>), classification |-> Str(L_pii)]
RecB == [comments |-> Str(<<" ">>), classification |-> Missing]
RecC == [comments |-> Str(<<"h","i">>),
         classification |-> Str(L_credentials \o <<","," ">> \o <<"P","I","I">>)]

RecordCycle == <<RecA, RecB, RecC>>

\* a record with a comment to classify and no ground truth
RecD == [comments |-> Str(<<"h","i">>), classification |-> Missing]

\* records whose comments field is absent, not a string, empty, or blank
EmptyRecs ==
    {[comments |-> c, classification |-> Str(L_pii)] :
        c \in {Missing, NonStr, Str(<<>>), Str(<<" ", "\n", "\t">>)}}

\* label strings: up to MaxTokens tokens joined by commas
Vocabulary ==
    {<<"p","i","i">>, <<" ","C","r","e","d","e","n","t","i","a","l","s"," ">>, <<"n","o","n","e">>, <<"x">>, <<"n","e","t","w","o","r","k","_","i","d","e","n","t","i","f","i","e","r","s",":">>, <<>>}

RECURSIVE join(_)
join(tokens) ==
    IF Len(tokens) = 1 THEN tokens[1] ELSE tokens[1] \o <<",">> \o join(Tail(tokens))

TokenStrings == {join(ts) : ts \in UNION {[1..n -> Vocabulary] : n \in 1..MaxTokens}}

\* records with a comment to classify and a classification field of any kind
NormRecs ==
    {[comments |-> Str(<<"h","i">>), classification |-> c] :
        c \in {Str(t) : t \in TokenStrings} \cup {Missing, NonStr, Str(<<" ">>)}}

AllRecords == {RecordCycle[k] : k \in 1..Len(RecordCycle)} \cup EmptyRecs \cup NormRecs

\* the records of a run, indexed by identifier 0..n-1: n records taken from
\* the cycle, starting at its (k+1)-th
Input(n, k) == [i \in 0..(n - 1) |-> RecordCycle[((i + k) % Len(RecordCycle)) + 1]]

InputSet == {Input(n, k) : n \in 0..MaxRecords, k \in 0..(Len(RecordCycle) - 1)}

AnswerPii == OpenTag \o L_pii \o CloseTag
AnswerTwo == <<"o","k"," ">> \o OpenTag \o <<"C","r","e","d","e","n","t","i","a","l","s",","," ">>
                 \o <<"P","I","I">> \o CloseTag
AnswerBad == <<"?","?","?">>
AnswerProse == <<"n","o"," ","i","d","e","a",".">>

\* "resp.choices[0].message.content if resp.choices else ''": no choice
AnswerEmpty == <<>>

Contents == {AnswerPii, AnswerTwo, AnswerBad, AnswerProse, AnswerEmpty}

Retryable == {"RateLimitError", "InternalServerError", "Exception"}
NonRetryable == {"APIError", "BadRequestError"}

\* what chat.completions.create can do: return a response or raise
Outcomes == [kind : {"ok"}, content : Contents]
                \cup [kind : Retryable \cup NonRetryable, content : {<<>>}]

\* responses that carry the label string t in an answer block: bare, with
\* prose around the block, and with the tags in upper case
ProseBefore == {<<>>, <<"o","k"," ">>, <<"u","s","e"," ","<","x","m","l",">",":"," ">>}
ProseAfter == {<<>>, <<" ","b","y","e">>}

EchoContents(t) ==
    {pre \o OpenTag \o t \o CloseTag \o post : pre \in ProseBefore, post \in ProseAfter}
        \cup {<<"<","X","M","L",">">> \o t \o <<"<","/","X","M","L",">">>}

\* the remote stage answering with the label string of the record's
\* classification field, or failing
NormOutcomes(rec) ==
    [kind : {"ok"}, content : EchoContents(rec.classification.s)]
        \cup [kind : Retryable \cup NonRetryable, content : {<<>>}]

AllOutcomes == Outcomes \cup UNION {NormOutcomes(rec) : rec \in NormRecs}

\* the outcomes drawn when several records are dispatched
DispatchOutcomes == {o \in Outcomes : o.kind \in {"RateLimitError", "BadRequestError"}
                                        \/ o.content = AnswerPii}

(***************************************************************************)
(* ask_llm and classify_record as functions of what the remote call did.   *)
(***************************************************************************)
NoValidXml == "No valid <xml>...</xml> returned."
MissingComments == "Missing or empty 'comments'."
WorkerError == "WorkerError: e"

\* f"{type(e).__name__}: {e}" and f"UnexpectedError: {e}"
ErrorText(kind) ==
    CASE kind = "RateLimitError" -> "RateLimitError: e"
      [] kind = "InternalServerError" -> "InternalServerError: e"
      [] kind = "APIError" -> "APIError: e"
      [] kind = "BadRequestError" -> "BadRequestError: e"
      [] kind = "Exception" -> "UnexpectedError: e"

\* mutant: an answer block that yields no label is reported as an error
answer_strict(content) ==
    LET xml == extract_xml_answer(content)
        san == IF sanitize_xml(xml) # <<>> THEN sanitize_xml(xml)
               ELSE sanitize_xml(content)
    IN  IF san = <<>> \/ parse_labels_from_xml(san) = <<>>
        THEN [returns |-> TRUE, xml |-> <<>>, err |-> NoValidXml]
        ELSE [returns |-> TRUE, xml |-> san, err |-> None]

\* the try-block of ask_llm once the request has returned content
answer(content) ==
    LET xml == extract_xml_answer(content)
        san == IF sanitize_xml(xml) # <<>> THEN sanitize_xml(xml)
               ELSE sanitize_xml(content)
    IN  IF san = <<>> THEN [returns |-> TRUE, xml |-> <<>>, err |-> NoValidXml]
        ELSE [returns |-> TRUE, xml |-> san, err |-> None]

\* answer(content) for every response of the model, computed once
answer_table == [c \in {o.content : o \in AllOutcomes} |-> answer(c)] @@ <<>>

\* one iteration of the for-loop of ask_llm, final telling whether
\* "attempt == MAX_RETRIES": either it returns (xml, err) or it sleeps and goes
\* on to the next attempt
ask_llm_iteration(final, o) ==
    IF o.kind = "ok"
    THEN answer_table[o.content]
    ELSE IF o.kind \in {"RateLimitError", "InternalServerError"}
    THEN IF final
         THEN [returns |-> TRUE, xml |-> <<>>, err |-> ErrorText(o.kind)]
         ELSE [returns |-> FALSE, xml |-> <<>>, err |-> None]
    ELSE IF o.kind \in {"APIError", "BadRequestError"}
    THEN [returns |-> TRUE, xml |-> <<>>, err |-> ErrorText(o.kind)]
    ELSE IF final
         THEN [returns |-> TRUE, xml |-> <<>>, err |-> ErrorText(o.kind)]
         ELSE [returns |-> FALSE, xml |-> <<>>, err |-> None]

\* mutant: the attempt ceiling is tested one attempt too late
ask_llm_attempt_overrun(attempt, o) == ask_llm_iteration(attempt = MAX_RETRIES + 1, o)

\* mutant: a malformed request is retried like a rate limit
ask_llm_attempt_retrybad(attempt, o) ==
    ask_llm_iteration(attempt = MAX_RETRIES,
                      IF o.kind = "BadRequestError" THEN [o EXCEPT !.kind = "RateLimitError"]
                      ELSE o)

\* mutant: the exhausted client returns without an error
ask_llm_attempt_noerror(attempt, o) ==
    LET a == ask_llm_iteration(attempt = MAX_RETRIES, o)
    IN  IF o.kind \in Retryable THEN [a EXCEPT !.err = None] ELSE a

\* mutant: a response without a usable answer is retried like a rate limit
ask_llm_attempt_retryxml(attempt, o) ==
    LET a == ask_llm_iteration(attempt = MAX_RETRIES, o)
    IN  IF o.kind = "ok" /\ a.err # None /\ attempt < MAX_RETRIES
        THEN [returns |-> FALSE, xml |-> <<>>, err |-> None]
        ELSE a

\* mutant: "if not xml" is missing, the unusable response is returned as it is
ask_llm_attempt_unguarded(attempt, o) ==
    LET a == ask_llm_iteration(attempt = MAX_RETRIES, o)
    IN  IF o.kind = "ok" THEN [a EXCEPT !.err = None] ELSE a

ask_llm_attempt(attempt, o) == ask_llm_iteration(attempt = MAX_RETRIES, o)

(***************************************************************************)
(* The values of the pure functions on the inputs of the model, computed   *)
(* once: the actions below look them up instead of evaluating the string   *)
(* operators anew in every state.                                          *)
(***************************************************************************)
\* ask_llm_attempt(n, o) for every attempt and outcome
attempt_table ==
    [n \in 1..(MAX_RETRIES + 1), o \in AllOutcomes |-> ask_llm_attempt(n, o)] @@ <<>>

\* "parse_labels_from_xml(xml) if xml else []" for every xml ask_llm returns
pred_table ==
    [xml \in {attempt_table[n, o].xml : n \in 1..(MAX_RETRIES + 1), o \in AllOutcomes}
        |-> IF xml # <<>> THEN parse_labels_from_xml(xml) ELSE <<>>] @@ <<>>

\* parse_ground_truth_labels(rec) for every record
gt_table ==
    [rec \in AllRecords |-> parse_ground_truth_labels(rec)] @@ <<>>

\* mutant: the comment is tested for emptiness without strip()
EmptyComment_nostrip(rec) ==
    LET comment == get(rec, "comments")
    IN  comment.type # "str" \/ comment.s = <<>>

\* "not isinstance(comment, str) or not comment.strip()"
EmptyComment(rec) ==
    LET comment == get(rec, "comments")
    IN  comment.type # "str" \/ strip(comment.s) = <<>>

CommentLength(rec) ==
    LET comment == get(rec, "comments")
    IN  IF comment.type = "str" THEN Len(comment.s) ELSE 0

\* the dict classify_record returns, given what ask_llm returned
classify_result(idx, rec, xml, err) ==
    [idx |-> idx,
     xml |-> xml,
     pred_labels |-> set(pred_table[xml]),
     error |-> err,
     comment_length |-> CommentLength(rec)]

\* mutant: the empty-comment branch leaves err unset
empty_result_noerr(idx, rec) ==
    [idx |-> idx,
     xml |-> OpenTag \o L_none \o CloseTag,
     pred_labels |-> {},
     error |-> None,
     comment_length |-> CommentLength(rec)]

\* the branch of classify_record for a missing or empty comment
empty_result(idx, rec) ==
    [idx |-> idx,
     xml |-> OpenTag \o L_none \o CloseTag,
     pred_labels |-> {},
     error |-> MissingComments,
     comment_length |-> CommentLength(rec)]

\* mutant: the worker fault leaves no error in the result
worker_error_result_silent(i) ==
    [idx |-> i,
     xml |-> OpenTag \o L_none \o CloseTag,
     pred_labels |-> {},
     error |-> None,
     comment_length |-> 0]

\* the dict the dispatch loop builds when fut.result() raises
worker_error_result(i) ==
    [idx |-> i,
     xml |-> OpenTag \o L_none \o CloseTag,
     pred_labels |-> {},
     error |-> WorkerError,
     comment_length |-> 0]

(***************************************************************************)
(* State.                                                                  *)
(***************************************************************************)
VARIABLES
    records,                \* the loaded input, identifier -> record
    max_workers,            \* pool size of the ThreadPoolExecutor
    pc,                     \* position of the main thread
    results,                \* results[i]: <<>> (None) or <<r>>
    yielded,                \* futures as_completed has handed out
    cur,                    \* loop variable i of the as_completed loop
    lock,                   \* holder of the threading.Lock, or "free"
    sem_num_done, sem_num_exact, sem_num_hit_incl_none, sem_pred_label_freq,
    pbar,                   \* pbar.n
    running,                \* running_exact, running_hit of the latest live update
    fut,                    \* fut[i]: the Future of classify_record((i, rec))
    task,                   \* task[i]: where ask_llm stands for record i
    queue,                  \* work queue of the executor
    threads,                \* number of worker threads started
    idle_semaphore,         \* executor._idle_semaphore
    worker,                 \* worker[t]: the record thread t works on, or -1
    tls,                    \* tls[t]: _tls.client as thread t sees it
    created,                \* created[t]: clients thread t has constructed
    used,                   \* used[t]: clients thread t has sent a request with
    last,                   \* last[i]: what the latest request for i did
    reply,                  \* reply[i]: content of the latest response for i
    writes,                 \* writes[i]: assignments made to results[i]
    num_done, num_exact, num_hit_incl_none, num_hit_nonempty,
    num_any_pred, num_any_gt, num_false_pos_records, num_false_neg_records,
    pred_label_freq, gt_label_freq, tp_label, fp_label, fn_label,
    enriched,
    report                  \* the rates of the final report: <<>> or <<rates>>

inputVars == <<records, max_workers>>
mainVars == <<pc, results, yielded, cur, writes>>
liveVars == <<lock, sem_num_done, sem_num_exact, sem_num_hit_incl_none,
              sem_pred_label_freq, pbar, running>>
tlsVars == <<tls, created, used>>
poolVars == <<queue, threads, idle_semaphore, worker, tlsVars>>
clientVars == <<task, last, reply>>
finalVars == <<num_done, num_exact, num_hit_incl_none, num_hit_nonempty,
               num_any_pred, num_any_gt, num_false_pos_records,
               num_false_neg_records, pred_label_freq, gt_label_freq,
               tp_label, fp_label, fn_label, enriched, report>>
vars == <<inputVars, mainVars, liveVars, poolVars, clientVars, fut, finalVars>>

N == Cardinality(DOMAIN records)

\* "getattr(_tls, "client", None)" finds no client; a client is named by the
\* thread that constructed it and the rank of the construction in that thread
NoClient == <<>>

\* "cli = getattr(...); if cli is None: cli = OpenAI(...)"
getattr(cli, new) == IF cli = NoClient THEN new ELSE cli
Ids == DOMAIN records
Threads == 1..max_workers
Labels == ALLOWED_LABELS

\* Counter()
Counter == [l \in Labels |-> 0]

\* "for l in s: c[l] += 1"
CountAll(c, s) == [l \in Labels |-> IF l \in s THEN c[l] + 1 ELSE c[l]]

NoFuture == [state |-> "NONE", result |-> <<>>, exception |-> None]
IdleTask == [phase |-> "none", attempt |-> 0, backoff |-> 0]

InitWith(inputs, pools) ==
    /\ records \in inputs
    /\ max_workers \in pools
    /\ pc = "load"
    /\ results = <<>>
    /\ yielded = {}
    /\ cur = -1
    /\ lock = "free"
    /\ sem_num_done = 0
    /\ sem_num_exact = 0
    /\ sem_num_hit_incl_none = 0
    /\ sem_pred_label_freq = Counter
    /\ pbar = 0
    /\ running = <<>>
    /\ fut = [i \in Ids |-> NoFuture]
    /\ task = [i \in Ids |-> IdleTask]
    /\ queue = <<>>
    /\ threads = 0
    /\ idle_semaphore = 0
    /\ worker = [t \in Threads |-> -1]
    /\ tls = [t \in Threads |-> NoClient]
    /\ created = [t \in Threads |-> 0]
    /\ used = [t \in Threads |-> {}]
    /\ last = [i \in Ids |-> "none"]
    /\ reply = [i \in Ids |-> <<>>]
    /\ writes = [i \in Ids |-> 0]
    /\ num_done = 0
    /\ num_exact = 0
    /\ num_hit_incl_none = 0
    /\ num_hit_nonempty = 0
    /\ num_any_pred = 0
    /\ num_any_gt = 0
    /\ num_false_pos_records = 0
    /\ num_false_neg_records = 0
    /\ pred_label_freq = Counter
    /\ gt_label_freq = Counter
    /\ tp_label = Counter
    /\ fp_label = Counter
    /\ fn_label = Counter
    /\ enriched = <<>>
    /\ report = <<>>

Init == InitWith(InputSet, 1..MaxPool)

(***************************************************************************)
(* Main thread, phase 1: load, submit, collect.                            *)
(***************************************************************************)
\* mutant: the guard on records is missing, an empty input runs through both
\* phases with nothing to do
Load_noguard ==
    /\ pc = "load"
    /\ pc' = IF N = 0 THEN "report" ELSE "submit"
    /\ results' = [i \in Ids |-> <<>>]
    /\ UNCHANGED <<inputVars, yielded, cur, writes, liveVars, poolVars, clientVars,
                   fut, finalVars>>

\* "if not records: raise SystemExit(...)", else "results = [None] * len(records)"
Load ==
    /\ pc = "load"
    /\ IF N = 0
       THEN pc' = "aborted" /\ UNCHANGED results
       ELSE pc' = "submit" /\ results' = [i \in Ids |-> <<>>]
    /\ UNCHANGED <<inputVars, yielded, cur, writes, liveVars, poolVars, clientVars,
                   fut, finalVars>>

\* ex.submit(classify_record, (i, rec)) for the next record of enumerate(records)
\* on an executor of the given pool size: the work item is queued, and a thread
\* is started when no thread is idle and fewer than size exist
SubmitTo(size) ==
    /\ pc = "submit"
    /\ LET i == CHOOSE j \in Ids : fut[j].state = "NONE" /\
                    \A k \in Ids : fut[k].state = "NONE" => j <= k
       IN  /\ fut' = [fut EXCEPT ![i].state = "PENDING"]
           /\ queue' = Append(queue, i)
           /\ IF idle_semaphore > 0
              THEN idle_semaphore' = idle_semaphore - 1 /\ UNCHANGED threads
              ELSE /\ threads' = IF threads < size THEN threads + 1 ELSE threads
                   /\ UNCHANGED idle_semaphore
           /\ pc' = IF i = N - 1 THEN "collect" ELSE "submit"
    /\ UNCHANGED <<inputVars, results, yielded, cur, writes, liveVars, worker, tlsVars,
                   clientVars, finalVars>>

\* mutant: the executor is built with max_workers=1
Submit_single == SubmitTo(1)

Submit == SubmitTo(max_workers)

\* one iteration of "for fut in as_completed(fut_to_idx)" up to "results[i] = r",
\* fut being the future of record f and i the index fut_to_idx gives for it
CollectInto(f, i) ==
    /\ pc = "collect"
    /\ f \notin yielded
    /\ fut[f].state = "FINISHED"
    /\ yielded' = yielded \cup {f}
    /\ cur' = i
    /\ LET r == IF fut[f].exception = None THEN fut[f].result[1]
                ELSE worker_error_result(i)
       IN  results' = [results EXCEPT ![i] = <<r>>]
    /\ writes' = [writes EXCEPT ![i] = @ + 1]
    /\ pc' = "lock"
    /\ UNCHANGED <<inputVars, liveVars, poolVars, clientVars, fut, finalVars>>

\* mutant: results are stored in completion order (append)
Collect_append(i) == CollectInto(i, Cardinality(yielded))

\* mutant: fut_to_idx gives the last index for every future
Collect_lastidx(i) == CollectInto(i, N - 1)

Collect(i) == CollectInto(i, i)

\* mutant: the live update runs without taking the lock
Acquire_nolock ==
    /\ pc = "lock"
    /\ pc' = "update"
    /\ UNCHANGED <<inputVars, results, yielded, cur, writes, liveVars, poolVars,
                   clientVars, fut, finalVars>>

\* "with lock:" entered
Acquire ==
    /\ pc = "lock"
    /\ lock = "free"
    /\ lock' = "main"
    /\ pc' = "update"
    /\ UNCHANGED <<inputVars, results, yielded, cur, writes, sem_num_done, sem_num_exact,
                   sem_num_hit_incl_none, sem_pred_label_freq, pbar, running, poolVars,
                   clientVars, fut, finalVars>>

\* a / b: the quotient as the pair <<a, b>>, or the exception for b = 0
ZeroDivisionError == <<"ZeroDivisionError">>

truediv(a, b) == IF b = 0 THEN ZeroDivisionError ELSE <<a, b>>

\* "(a / b) * 100.0"
percent(a, b) == IF b = 0 THEN ZeroDivisionError ELSE <<a * 100, b>>

\* mutant: a predicted set contained in the ground truth is an exact match
exact_match_subset(pred_set, gt_set) == pred_set \subseteq gt_set

\* "pred_set == gt_set"
exact_match(pred_set, gt_set) == pred_set = gt_set

\* mutant: two empty sets are never a hit
hit_now_strict(pred_set, gt_set) == pred_set \cap gt_set # {}

\* "bool(inter) or (COUNT_NONE_AS_HIT and not pred_set and not gt_set)"
hit_now(pred_set, gt_set) ==
    (pred_set \cap gt_set # {}) \/ (COUNT_NONE_AS_HIT /\ pred_set = {} /\ gt_set = {})

\* the body of "with lock:" for the sets pred_set and gt_set, then the lock is
\* released; when the as_completed loop has no more futures the with-blocks
\* are left and phase 2 starts
LiveUpdateOn(pred_set, gt_set, more) ==
    /\ pc = "update"
    /\ sem_num_done' = sem_num_done + 1
    /\ sem_num_exact' = IF exact_match(pred_set, gt_set) THEN sem_num_exact + 1
                        ELSE sem_num_exact
    /\ sem_num_hit_incl_none' = IF hit_now(pred_set, gt_set)
                                THEN sem_num_hit_incl_none + 1
                                ELSE sem_num_hit_incl_none
    /\ sem_pred_label_freq' = CountAll(sem_pred_label_freq, pred_set)
    /\ running' = [acc |-> percent(sem_num_exact', sem_num_done'),
                    hit |-> percent(sem_num_hit_incl_none', sem_num_done')]
    /\ pbar' = pbar + 1
    /\ lock' = "free"
    /\ pc' = IF ZeroDivisionError \in {running'.acc, running'.hit} THEN "crashed"
             ELSE IF more THEN "collect" ELSE "final"
    /\ UNCHANGED <<inputVars, results, yielded, cur, writes, poolVars, clientVars, fut,
                   finalVars>>

\* mutant: the ground truth is parsed from the result r instead of records[i]
LiveUpdate_wrongrec ==
    LiveUpdateOn(results[cur][1].pred_labels, {}, yielded # Ids)

\* mutant: the collecting loop is left after the first completion
LiveUpdate_early ==
    LiveUpdateOn(results[cur][1].pred_labels,
                 set(gt_table[records[cur]]), FALSE)

LiveUpdate ==
    LiveUpdateOn(results[cur][1].pred_labels,
                 set(gt_table[records[cur]]), yielded # Ids)

(***************************************************************************)
(* Worker threads of the executor: each takes work items from the queue    *)
(* and runs classify_record, which runs ask_llm.                           *)
(***************************************************************************)
\* work_queue.get() by an idle thread, the queue being left as rest: the future
\* starts running
TakeLeaving(t, rest) ==
    /\ t \in 1..threads
    /\ worker[t] = -1
    /\ queue # <<>>
    /\ worker' = [worker EXCEPT ![t] = Head(queue)]
    /\ queue' = rest
    /\ fut' = [fut EXCEPT ![Head(queue)].state = "RUNNING"]
    /\ task' = [task EXCEPT ![Head(queue)].phase = "start"]
    /\ UNCHANGED <<inputVars, mainVars, liveVars, threads, idle_semaphore, tlsVars,
                   last, reply, finalVars>>

\* mutant: the work item is read but stays in the queue
Take_nopop(t) == TakeLeaving(t, queue)

Take(t) == TakeLeaving(t, Tail(queue))

\* the work item ends: the future is resolved with r (exc = None) or with the
\* exception exc, and the thread counts itself idle
Finish(t, i, r, exc) ==
    /\ fut' = [fut EXCEPT ![i] = [state |-> "FINISHED", result |-> r, exception |-> exc]]
    /\ task' = [task EXCEPT ![i] = [phase |-> IF exc = None THEN "returned" ELSE "raised",
                                    attempt |-> 0, backoff |-> 0]]
    /\ worker' = [worker EXCEPT ![t] = -1]
    /\ idle_semaphore' = idle_semaphore + 1

\* mutant: the client is kept in one module-level variable
tls_slot_global(t) == 1

\* "_tls = threading.local()": the attributes of _tls that thread t sees
tls_slot(t) == t

\* get_client() followed by chat.completions.create(...): the client is taken
\* from _tls, or constructed and stored there, and the request is out
Request(t, i) ==
    /\ LET cli == getattr(tls[tls_slot(t)], <<t, created[t] + 1>>)
       IN  /\ created' = IF tls[tls_slot(t)] = NoClient
                         THEN [created EXCEPT ![t] = @ + 1] ELSE created
           /\ tls' = [tls EXCEPT ![tls_slot(t)] = cli]
           /\ used' = [used EXCEPT ![t] = @ \cup {cli}]
    /\ last' = [last EXCEPT ![i] = "pending"]
    /\ reply' = [reply EXCEPT ![i] = <<>>]

\* classify_record up to its first remote request: the empty-comment branch
\* returns at once, otherwise ask_llm starts its first attempt
Classify(t) ==
    /\ t \in 1..threads
    /\ worker[t] # -1
    /\ task[worker[t]].phase = "start"
    /\ LET i == worker[t]
       IN  IF EmptyComment(records[i])
           THEN /\ Finish(t, i, <<empty_result(i, records[i])>>, None)
                /\ UNCHANGED <<tlsVars, last, reply>>
           ELSE /\ task' = [task EXCEPT ![i] = [phase |-> "inflight", attempt |-> 1,
                                                backoff |-> SLEEP_BACKOFF]]
                /\ Request(t, i)
                /\ UNCHANGED <<fut, worker, idle_semaphore>>
    /\ UNCHANGED <<inputVars, mainVars, liveVars, queue, threads, finalVars>>

\* an exception escapes classify_record
Fault(t) ==
    /\ t \in 1..threads
    /\ worker[t] # -1
    /\ task[worker[t]].phase = "start"
    /\ Finish(t, worker[t], <<>>, "e")
    /\ UNCHANGED <<inputVars, mainVars, liveVars, queue, threads, tlsVars, last, reply, finalVars>>

\* the remote call of the current attempt returns or raises (outcome o): ask_llm
\* returns, and classify_record with it, or it starts time.sleep(backoff)
Respond(t, o) ==
    /\ t \in 1..threads
    /\ worker[t] # -1
    /\ task[worker[t]].phase = "inflight"
    /\ LET i == worker[t]
           a == attempt_table[task[i].attempt, o]
       IN  /\ last' = [last EXCEPT ![i] = o.kind]
           /\ reply' = [reply EXCEPT ![i] = o.content]
           /\ IF a.returns
              THEN Finish(t, i, <<classify_result(i, records[i], a.xml, a.err)>>, None)
              ELSE /\ task' = [task EXCEPT ![i].phase = "sleeping"]
                   /\ UNCHANGED <<fut, worker, idle_semaphore>>
    /\ UNCHANGED <<inputVars, mainVars, liveVars, queue, threads, tlsVars, finalVars>>

\* mutant: the delay starts again from SLEEP_BACKOFF after a wait
grow_reset(backoff) == SLEEP_BACKOFF

\* "backoff *= 1.7"
grow(backoff) == (backoff * BackoffNum) \div BackoffDen

\* time.sleep(backoff) is over: "backoff *= 1.7", next iteration, next request
Wake(t) ==
    /\ t \in 1..threads
    /\ worker[t] # -1
    /\ task[worker[t]].phase = "sleeping"
    /\ LET i == worker[t]
       IN  /\ task' = [task EXCEPT ![i] = [phase |-> "inflight", attempt |-> @.attempt + 1,
                                           backoff |-> grow(@.backoff)]]
           /\ Request(t, i)
    /\ UNCHANGED <<inputVars, mainVars, liveVars, queue, threads, idle_semaphore, worker,
                   fut, finalVars>>

\* the remote call never returns (there is no timeout): the worker is stuck
Stuck == {i \in Ids : task[i].phase = "hung"}

Hang(t) ==
    /\ t \in 1..threads
    /\ worker[t] # -1
    /\ task[worker[t]].phase = "inflight"
    /\ Stuck = {}
    /\ task' = [task EXCEPT ![worker[t]].phase = "hung"]
    /\ UNCHANGED <<inputVars, mainVars, liveVars, poolVars, last, reply, fut, finalVars>>

(***************************************************************************)
(* Main thread, phase 2: the sequential pass over records and results.     *)
(***************************************************************************)
\* mutant: every predicted label is counted as a false positive
false_positives_all(pred_set, gt_set) == pred_set

\* "pred_set - gt_set"
false_positives(pred_set, gt_set) == pred_set \ gt_set

\* mutant: a record without any predicted label is left out of the count
false_negatives_skip(pred_set, gt_set) == IF pred_set = {} THEN {} ELSE gt_set \ pred_set

\* "gt_set - pred_set"
false_negatives(pred_set, gt_set) == gt_set \ pred_set

\* mutant: the error of the result is left out of the row
row_noerror(rec, r, pred_set, gt_set) ==
    [comments |-> rec.comments, classification |-> rec.classification,
     xml |-> r.xml, pred_labels |-> pred_set, gt_labels |-> gt_set,
     error |-> None]

\* "row = {**rec, "xml": ..., "pred_labels": ..., "gt_labels": ..., "error": err}"
row(rec, r, pred_set, gt_set) ==
    [comments |-> rec.comments, classification |-> rec.classification,
     xml |-> r.xml, pred_labels |-> pred_set, gt_labels |-> gt_set,
     error |-> r.error]

\* one iteration of "for i, rec in enumerate(records)", which leaves records
\* as recs
FinalPass(recs) ==
    /\ pc = "final"
    /\ LET i == num_done
           rec == records[i]
           r == results[i][1]
           gt_labels == gt_table[rec]
           pred_set == r.pred_labels
           gt_set == set(gt_labels)
           inter == pred_set \cap gt_set
       IN  /\ num_done' = num_done + 1
           /\ num_exact' = IF exact_match(pred_set, gt_set) THEN num_exact + 1 ELSE num_exact
           /\ num_hit_incl_none' = IF hit_now(pred_set, gt_set) THEN num_hit_incl_none + 1
                                   ELSE num_hit_incl_none
           /\ num_hit_nonempty' = IF inter # {} THEN num_hit_nonempty + 1 ELSE num_hit_nonempty
           /\ num_any_pred' = IF pred_set # {} THEN num_any_pred + 1 ELSE num_any_pred
           /\ num_any_gt' = IF gt_set # {} THEN num_any_gt + 1 ELSE num_any_gt
           /\ num_false_pos_records' = IF pred_set # {} /\ gt_set = {}
                                       THEN num_false_pos_records + 1
                                       ELSE num_false_pos_records
           /\ num_false_neg_records' = IF gt_set # {} /\ pred_set = {}
                                       THEN num_false_neg_records + 1
                                       ELSE num_false_neg_records
           /\ gt_label_freq' = CountAll(gt_label_freq, gt_set)
           /\ pred_label_freq' = CountAll(pred_label_freq, pred_set)
           /\ tp_label' = CountAll(tp_label, inter)
           /\ fp_label' = CountAll(fp_label, false_positives(pred_set, gt_set))
           /\ fn_label' = CountAll(fn_label, false_negatives(pred_set, gt_set))
           /\ enriched' = Append(enriched, row(rec, r, pred_set, gt_set))
           /\ records' = recs
           /\ pc' = IF i = N - 1 THEN "report" ELSE "final"
    /\ UNCHANGED <<report, max_workers, results, yielded, cur, writes, liveVars, poolVars,
                   clientVars, fut>>

\* mutant: the row is rec itself, not a copy, and "comments" is removed from it
FinalStep_inplace == FinalPass([records EXCEPT ![num_done].comments = Missing])

\* "**rec" copies the fields of rec into the new dict row: records stay as
\* they are

FinalStep == FinalPass(records)

\* mutant: precision and recall are computed without testing the denominator
rate_unguarded(tp, d) == truediv(tp, d)

\* "tp / d if d else 0.0"
rate_or_zero(tp, d) == IF d # 0 THEN truediv(tp, d) ELSE <<0, 1>>

\* the report after the final pass: the two rates over num_done, then
\* precision and recall of every label counted in the ground truth or in the
\* predictions; a division by zero ends the run with the exception
Report ==
    /\ pc = "report"
    /\ LET labels_all == {l \in Labels : gt_label_freq[l] > 0 \/ pred_label_freq[l] > 0}
           rates == [exact |-> truediv(num_exact, num_done),
                     hit |-> truediv(num_hit_incl_none, num_done),
                     prec |-> [l \in labels_all |->
                                  rate_or_zero(tp_label[l], tp_label[l] + fp_label[l])],
                     rec |-> [l \in labels_all |->
                                 rate_or_zero(tp_label[l], tp_label[l] + fn_label[l])]]
           raised == \/ ZeroDivisionError \in {rates.exact, rates.hit}
                     \/ \E l \in labels_all : ZeroDivisionError \in {rates.prec[l], rates.rec[l]}
       IN  IF raised
           THEN pc' = "crashed" /\ UNCHANGED report
           ELSE pc' = "done" /\ report' = <<rates>>
    /\ UNCHANGED <<inputVars, results, yielded, cur, writes, liveVars, poolVars, clientVars,
                   fut, num_done, num_exact, num_hit_incl_none, num_hit_nonempty,
                   num_any_pred, num_any_gt, num_false_pos_records, num_false_neg_records,
                   pred_label_freq, gt_label_freq, tp_label, fp_label, fn_label, enriched>>

\* every step of the program, the remote service answering with one of outs
Step(outs) ==
    \/ Load
    \/ Submit
    \/ \E i \in Ids : Collect(i)
    \/ Acquire
    \/ LiveUpdate
    \/ \E t \in Threads : Take(t)
    \/ \E t \in Threads : Classify(t)
    \/ \E t \in Threads : Fault(t)
    \/ \E t \in Threads : \E o \in outs : Respond(t, o)
    \/ \E t \in Threads : Wake(t)
    \/ FinalStep
    \/ Report

\* the steps in which no response arrives
LocalStep ==
    \/ Load
    \/ Submit
    \/ \E i \in Ids : Collect(i)
    \/ Acquire
    \/ LiveUpdate
    \/ \E t \in Threads : Take(t)
    \/ \E t \in Threads : Classify(t)
    \/ \E t \in Threads : Fault(t)
    \/ \E t \in Threads : Wake(t)
    \/ FinalStep
    \/ Report

Next == Step(DispatchOutcomes)

Spec == Init /\ [][Next]_vars

(***************************************************************************)
(* One record, one worker, every outcome of the remote call: the           *)
(* classification client on its own.                                       *)
(***************************************************************************)
ClientInit == InitWith({Input(1, k) : k \in 0..(Len(RecordCycle) - 1)}, {1})

ClientNext == Step(Outcomes)

ClientSpec == ClientInit /\ [][ClientNext]_vars

(***************************************************************************)
(* Scheduling: the main thread and every worker thread keep running, and a *)
(* remote call that is not stuck returns.                                  *)
(***************************************************************************)
MainStep == Load \/ Submit \/ (\E i \in Ids : Collect(i)) \/ Acquire \/ LiveUpdate \/ FinalStep
                \/ Report

WorkerStep(t) ==
    Take(t) \/ Classify(t) \/ Fault(t) \/ (\E o \in DispatchOutcomes : Respond(t, o)) \/ Wake(t)

Fairness == WF_vars(MainStep) /\ \A t \in 1..MaxPool : WF_vars(WorkerStep(t))

\* the inputs that are a prefix of the record cycle
FairInit == InitWith({Input(n, 0) : n \in 0..MaxRecords}, 1..MaxPool)

FairSpec == FairInit /\ [][Next]_vars /\ Fairness

\* one record and every outcome of the remote call, the worker thread running
\* on and every remote call returning or raising
ClientStep(t) ==
    Take(t) \/ Classify(t) \/ Fault(t) \/ (\E o \in Outcomes : Respond(t, o)) \/ Wake(t)

ClientFairSpec == ClientSpec /\ WF_vars(MainStep) /\ WF_vars(ClientStep(1))

\* the same with a remote call that may never return, on the inputs that are
\* a prefix of the record cycle
StuckInit == InitWith({Input(n, 0) : n \in 1..Len(RecordCycle)}, 1..MaxPool)

StuckNext == Next \/ \E t \in Threads : Hang(t)

StuckSpec == StuckInit /\ [][StuckNext]_vars /\ Fairness

\* one record whose classification field is drawn from the label strings,
\* the remote stage answering with that string
NormInit == InitWith({[i \in 0..0 |-> rec] : rec \in NormRecs}, {1})

NormNext ==
    \/ LocalStep
    \/ \E t \in Threads : \E o \in NormOutcomes(records[0]) : Respond(t, o)

NormSpec == NormInit /\ [][NormNext]_vars

\* several records on a pool of one worker, every outcome of the remote call:
\* the result sets the metrics are computed from
MetricsCycle == <<RecA, RecC, RecD>>

MetricsInit ==
    InitWith({[i \in 0..(n - 1) |-> MetricsCycle[((i + k) % Len(MetricsCycle)) + 1]] :
                 n \in 0..MaxRecords, k \in 0..1},
             {1})

MetricsNext == Step(Outcomes)

MetricsSpec == MetricsInit /\ [][MetricsNext]_vars

\* runs of two records, one of them without usable comment text
EmptyInit ==
    InitWith({[i \in 0..1 |-> IF i = k THEN e ELSE RecA] : e \in EmptyRecs, k \in 0..1},
             1..MaxPool)

EmptySpec == EmptyInit /\ [][Next]_vars

(***************************************************************************)
(* Properties.                                                             *)
(***************************************************************************)
Filled(i) == i \in DOMAIN results /\ results[i] # <<>>
DispatchOver == pc \in {"final", "report", "done"}
ClientEnded(i) == task[i].phase = "returned"
Exhausted(i) == ClientEnded(i) /\ last[i] \in Retryable
Faulted(i) == fut[i].state = "FINISHED" /\ fut[i].exception # None

\* C1: when dispatch has ended, results has exactly the N slots 0..N-1, every
\* slot is filled, and the result in slot i carries idx = i; at any moment a
\* filled slot i holds a result with idx = i
C1_PositionedResults ==
    /\ \A i \in DOMAIN results : results[i] # <<>> => results[i][1].idx = i
    /\ DispatchOver =>
          /\ DOMAIN results = 0..(N - 1)
          /\ \A i \in 0..(N - 1) : results[i] # <<>> /\ results[i][1].idx = i

\* two records on two workers, the second one completed and collected first
C1_Witness ==
    /\ pc = "final"
    /\ N = 2
    /\ max_workers = 2
    /\ cur = 0
    /\ \A i \in Ids : Filled(i) /\ results[i][1].idx = i

\* C2: at the end of the run the live totals equal the totals of the final
\* sequential pass, whatever the completion order was
C2_LiveEqualsFinal ==
    pc = "done" =>
        /\ sem_num_done = num_done
        /\ num_done = N
        /\ sem_num_exact = num_exact
        /\ sem_num_hit_incl_none = num_hit_incl_none
        /\ \A l \in Labels : sem_pred_label_freq[l] = pred_label_freq[l]

\* out-of-order completion with one exact match and one further hit
C2_Witness ==
    /\ pc = "done"
    /\ N = 2
    /\ cur = 0
    /\ num_exact = 1
    /\ num_hit_incl_none = 2
    /\ pred_label_freq[L_pii] = 2

\* C3: a client issues at most MAX_RETRIES requests, one per attempt; a
\* retryable failure on attempt n < MAX_RETRIES starts one wait, after which
\* attempt n+1 is issued; a retryable failure on attempt MAX_RETRIES ends
\* the client with the error of that attempt, without wait or request
C3_State ==
    \A i \in Ids :
        /\ task[i].attempt <= MAX_RETRIES
        /\ task[i].phase = "sleeping" =>
              task[i].attempt < MAX_RETRIES /\ last[i] \in Retryable

C3_Step ==
    \A i \in Ids :
        /\ (task[i].phase = "inflight" /\ last'[i] \in Retryable) =>
              IF task[i].attempt < MAX_RETRIES
              THEN task'[i] = [task[i] EXCEPT !.phase = "sleeping"] /\ fut'[i] = fut[i]
              ELSE /\ task'[i].phase = "returned"
                   /\ fut'[i].state = "FINISHED"
                   /\ fut'[i].result[1].error = ErrorText(last'[i])
        /\ (task[i].phase = "sleeping" /\ task'[i] # task[i]) =>
              task'[i].phase = "inflight" /\ task'[i].attempt = task[i].attempt + 1
        /\ (task'[i].phase = "inflight" /\ task[i].phase # "inflight") =>
              task'[i].attempt = task[i].attempt + 1
        /\ (task[i].phase = "inflight" /\ task'[i].phase = "inflight") =>
              task'[i] = task[i]
        /\ task[i].phase \in {"returned", "raised"} => task'[i] = task[i]

C3_BoundedRetry == []C3_State /\ [][C3_Step]_vars

\* a client that returned after retryable failures on all its attempts
C3_Witness ==
    \E i \in Ids :
        /\ Exhausted(i)
        /\ fut[i].result[1].error \in {ErrorText(k) : k \in Retryable}

\* C4: a non-retryable failure on any attempt ends the client at once with
\* that error: no wait, no further request
C4_Step ==
    \A i \in Ids :
        (task[i].phase = "inflight" /\ last'[i] \in NonRetryable) =>
            /\ task'[i].phase = "returned"
            /\ fut'[i].state = "FINISHED"
            /\ fut'[i].exception = None
            /\ fut'[i].result[1].error = ErrorText(last'[i])
            /\ fut'[i].result[1].pred_labels = {}

C4_State ==
    \A i \in Ids :
        /\ last[i] \in NonRetryable => ClientEnded(i)
        /\ task[i].phase = "sleeping" => last[i] \notin NonRetryable

C4_NonRetryableEnds == []C4_State /\ [][C4_Step]_vars

\* a client ended by a malformed-request error, and one by another API error
C4_Witness ==
    \E i \in Ids :
        /\ ClientEnded(i)
        /\ last[i] = "APIError"
        /\ fut[i].result[1].error = "APIError: e"

\* C5: a record whose client exhausted its attempts on retryable failures
\* gets a result with an error and no predicted labels; every other record
\* still gets the result its own client returned, and the step in which one
\* client gives up changes nothing of any other record
C5_State ==
    /\ \A i \in Ids :
          /\ Exhausted(i) =>
                /\ fut[i].result[1].error # None
                /\ fut[i].result[1].pred_labels = {}
          /\ (Filled(i) /\ fut[i].exception = None) => results[i][1] = fut[i].result[1]
    /\ ((\E i \in Ids : Exhausted(i)) /\ DispatchOver) => \A j \in Ids : Filled(j)

C5_Step ==
    \A i \in Ids :
        (~Exhausted(i) /\ Exhausted(i)') =>
            /\ results' = results
            /\ \A j \in Ids \ {i} : fut'[j] = fut[j] /\ task'[j] = task[j] /\ last'[j] = last[j]

C5_FailureIsLocal == []C5_State /\ [][C5_Step]_vars

\* one record gave up after rate limits, the other one was classified
C5_Witness ==
    /\ pc = "done"
    /\ N = 2
    /\ \E i \in Ids, j \in Ids :
          /\ i # j
          /\ Exhausted(i)
          /\ results[i][1].error = "RateLimitError: e"
          /\ results[i][1].pred_labels = {}
          /\ results[j][1].error = None
          /\ results[j][1].pred_labels = {L_pii}

\* C6: an exception raised inside classify_record becomes a result for that
\* record's identifier with a WorkerError error and no predicted labels, and
\* the dispatch goes on until every record is collected
C6_State ==
    \A i \in Ids :
        (Faulted(i) /\ Filled(i)) =>
            /\ results[i][1].idx = i
            /\ results[i][1].error = "WorkerError: e"
            /\ results[i][1].pred_labels = {}

C7_Original ==
    (Stuck # {}) ~> (\A j \in Ids \ Stuck : Filled(j))

\* with a pool of one worker that is stuck, a queued record never starts
C7_Step ==
    (Stuck # {} /\ max_workers = 1) =>
        \A j \in Ids : fut[j].state = "PENDING" => fut'[j].state = "PENDING"

\* C7 amended: with one worker stuck forever and a pool of at least two
\* workers, every other record is still eventually classified and stored, also
\* when more records than workers are dispatched; the stuck worker keeps the
\* final pass from starting; in a pool of one worker the records queued behind
\* the stuck one are never classified
C7_StuckWorkerPoolOfTwo ==
    /\ [](Stuck # {} => ~DispatchOver)
    /\ [][C7_Step]_vars
    /\ (Stuck # {} /\ max_workers >= 2) ~> (\A j \in Ids \ Stuck : Filled(j))

\* three records on two workers, one stuck, the other two stored
C7_Witness ==
    /\ Stuck # {}
    /\ max_workers = 2
    /\ N = 3
    /\ \A j \in Ids \ Stuck : Filled(j)

\* C8: the final pass reads results only when every slot is filled, and when
\* every remote call returns every record ends and the final pass runs
C8_State ==
    pc = "final" => \A i \in Ids : Filled(i) /\ fut[i].state = "FINISHED"

C8_FinalAfterAll ==
    /\ []C8_State
    /\ <>(N = 0 \/ (pc = "done" /\ \A i \in Ids : fut[i].state = "FINISHED"))

\* the final pass is about to read results[1]
C8_Witness ==
    /\ pc = "final"
    /\ N = 2
    /\ num_done = 1
    /\ \A i \in Ids : Filled(i)

\* C9: every slot of results is assigned exactly once, by the collecting
\* loop for that slot's own future, and never changes afterwards
C9_State ==
    \A i \in DOMAIN results :
        /\ writes[i] <= 1
        /\ (results[i] # <<>>) = (writes[i] = 1)
        /\ DispatchOver => writes[i] = 1

C9_Step ==
    \A i \in DOMAIN results :
        /\ results[i] # <<>> => results'[i] = results[i]
        /\ results'[i] # results[i] =>
              pc = "collect" /\ fut[i].state = "FINISHED" /\ cur' = i

C10_State ==
    /\ (pc = "update") = (lock = "main")
    /\ sem_num_done = Cardinality(yielded) - (IF pc \in {"lock", "update"} THEN 1 ELSE 0)
    /\ pbar = sem_num_done

C10_Step ==
    <<sem_num_done, sem_num_exact, sem_num_hit_incl_none, sem_pred_label_freq>>'
        # <<sem_num_done, sem_num_exact, sem_num_hit_incl_none, sem_pred_label_freq>>
    => /\ lock = "main"
       /\ lock' = "free"
       /\ sem_num_done' = sem_num_done + 1

C10_LockedUpdate == []C10_State /\ [][C10_Step]_vars

\* the second update is running inside the lock
C10_Witness ==
    /\ pc = "update"
    /\ lock = "main"
    /\ sem_num_done = 1
    /\ Cardinality(yielded) = 2

\* the classification calls in flight: a request is out, or the worker sleeps
\* between two attempts
InFlight == {i \in Ids : task[i].phase \in {"inflight", "sleeping", "hung"}}

\* C11: at every moment at most max_workers classification calls are in
\* flight, no record is held by two workers or by a worker and the queue, and
\* the client of a record starts at most once
C11_State ==
    /\ Cardinality(InFlight) <= max_workers
    /\ threads <= max_workers
    /\ \A t1 \in Threads, t2 \in Threads :
          (t1 # t2 /\ worker[t1] # -1) => worker[t1] # worker[t2]
    /\ \A k1 \in 1..Len(queue), k2 \in 1..Len(queue) : k1 # k2 => queue[k1] # queue[k2]
    /\ \A t \in Threads, k \in 1..Len(queue) : worker[t] # queue[k]
    /\ \A i \in InFlight : \E t \in Threads : worker[t] = i

C11_Step ==
    \A i \in Ids :
        /\ (task'[i].phase = "start" /\ task[i].phase # "start") => task[i].phase = "none"
        /\ (task'[i].attempt = 1 /\ task[i].attempt # 1) => task[i].phase = "start"
        /\ fut[i].state = "FINISHED" => fut'[i] = fut[i]

C11_BoundedInFlight == []C11_State /\ [][C11_Step]_vars

\* a pool of one worker: one call in flight while the other record waits in
\* the queue
C11_Witness ==
    /\ max_workers = 1
    /\ N = 2
    /\ Cardinality(InFlight) = 1
    /\ queue # <<>>

\* the comment text is missing, not a string, empty or whitespace-only
EmptyText(rec) ==
    \/ rec.comments.type # "str"
    \/ \A k \in 1..Len(rec.comments.s) : rec.comments.s[k] \in Whitespace

\* C12: for a record without usable text no remote request is ever made, and
\* classify_record returns the result with no predicted labels and the note
\* that the comments are missing or empty; the run goes on as for any record
C12_State ==
    \A i \in Ids :
        EmptyText(records[i]) =>
            /\ last[i] = "none"
            /\ task[i].attempt = 0
            /\ task[i].phase \in {"none", "start", "returned", "raised"}
            /\ (fut[i].state = "FINISHED" /\ fut[i].exception = None) =>
                  /\ fut[i].result[1].idx = i
                  /\ fut[i].result[1].pred_labels = {}
                  /\ fut[i].result[1].error = "Missing or empty 'comments'."
                  /\ fut[i].result[1].xml = <<"<","x","m","l",">","n","o","n","e","<","/","x","m","l",">">>

C12_Step ==
    \A i \in Ids :
        (EmptyText(records[i]) /\ task[i].phase = "start" /\ task'[i] # task[i]) =>
            task'[i].phase \in {"returned", "raised"} /\ tls' = tls

C12_EmptyShortCircuit == []C12_State /\ [][C12_Step]_vars

\* a record whose comments field is a number, next to a classified record
C12_Witness ==
    /\ pc = "done"
    /\ \E i \in Ids, j \in Ids :
          /\ records[i].comments.type = "other"
          /\ results[i][1].error = "Missing or empty 'comments'."
          /\ results[i][1].pred_labels = {}
          /\ last[i] = "none"
          /\ results[j][1].error = None
          /\ results[j][1].pred_labels = {L_pii}

NoneXml == <<"<","x","m","l",">","n","o","n","e","<","/","x","m","l",">">>

\* C13 as stated: in every stored result the error is present exactly when
\* the raw answer is the empty string
C13_Original ==
    \A i \in Ids :
        Filled(i) => ((results[i][1].error # None) <=> (results[i][1].xml = <<>>))

\* C13 amended: a stored result has no error exactly when the remote stage
\* gave a usable answer, and then the raw answer is a non-empty wrapped
\* string; with an error the predicted labels are empty, and the raw answer
\* is empty when the client ended with the error but is the default
\* <xml>none</xml> for an empty comment and for a worker fault
C13_ErrorOrAnswer ==
    \A i \in Ids :
        Filled(i) =>
            LET r == results[i][1]
            IN  /\ r.error = None =>
                      /\ last[i] = "ok"
                      /\ ~Faulted(i)
                      /\ r.xml # <<>>
                      /\ startswith(lower(r.xml), OpenTag)
                      /\ endswith(lower(r.xml), CloseTag)
                /\ r.error # None =>
                      /\ r.pred_labels = {}
                      /\ r.xml = IF r.error \in {"Missing or empty 'comments'.", "WorkerError: e"}
                                 THEN NoneXml ELSE <<>>
                /\ r.error = "Missing or empty 'comments'." <=>
                      (EmptyText(records[i]) /\ ~Faulted(i))
                /\ r.error = "WorkerError: e" <=> Faulted(i)

\* the stored result of a blank comment: an error next to a non-empty answer
C13_Witness ==
    \E i \in Ids :
        /\ Filled(i)
        /\ EmptyText(records[i])
        /\ results[i][1].error = "Missing or empty 'comments'."
        /\ results[i][1].xml = NoneXml

\* the response holds no <xml>...</xml> block and no character the salvage
\* step keeps other than whitespace
Unusable(content) ==
    /\ XML_RE(content)[1] = 0
    /\ \A k \in 1..Len(content) :
          content[k] \notin Lowers \cup Uppers \cup Digits \cup {"_", ",", "-"}

TransportErrors == {ErrorText(k) : k \in Retryable \cup NonRetryable}

\* C14: a response that arrives but holds neither an answer block nor
\* anything to salvage ends the client in that step, on any attempt, with the
\* error "No valid <xml>...</xml> returned.", which is no transport error, and
\* with no predicted labels
C14_Step ==
    \A i \in Ids :
        (task[i].phase = "inflight" /\ last'[i] = "ok" /\ Unusable(reply'[i])) =>
            /\ task'[i].phase = "returned"
            /\ fut'[i].state = "FINISHED"
            /\ fut'[i].exception = None
            /\ fut'[i].result[1].error = "No valid <xml>...</xml> returned."
            /\ fut'[i].result[1].error \notin TransportErrors
            /\ fut'[i].result[1].xml = <<>>
            /\ fut'[i].result[1].pred_labels = {}

C14_State ==
    \A i \in Ids :
        (last[i] = "ok" /\ Unusable(reply[i])) =>
            /\ ClientEnded(i)
            /\ Filled(i) => /\ results[i][1].error = "No valid <xml>...</xml> returned."
                            /\ results[i][1].pred_labels = {}

C14_NoUsableAnswer == []C14_State /\ [][C14_Step]_vars

\* the answer "???" arrived and ended the client; the run went on to its end
C14_Witness ==
    \E i \in Ids :
        /\ Filled(i)
        /\ reply[i] = <<"?","?","?">>
        /\ results[i][1].error = "No valid <xml>...</xml> returned."
        /\ tls[1] # NoClient
        /\ pc = "done"

\* the response holds no <xml>...</xml> block and none of its comma-separated
\* tokens is a word of the taxonomy
Garbage(content) ==
    /\ XML_RE(content)[1] = 0
    /\ LET parts == split(content, ",")
       IN  \A k \in 1..Len(parts) : normtoken(parts[k]) \notin ALLOWED_LABELS

\* C15: a response without answer block and without taxonomy token always
\* gives the record an explicit error, never an error-free result
C15_GarbageIsError ==
    \A i \in Ids :
        (Filled(i) /\ last[i] = "ok" /\ Garbage(reply[i])) => results[i][1].error # None

\* the inner content of a wrapped answer, and its normalized tokens
Inner(xml) == strip(SubSeq(strip(xml), Len(OpenTag) + 1, Len(strip(xml)) - Len(CloseTag)))

Tokens(content) ==
    LET parts == split(content, ",")
    IN  {normtoken(parts[k]) : k \in 1..Len(parts)}

\* C16: when a token of the inner content of the answer normalizes to "none",
\* the predicted label set is empty, whatever labels stand before or after it
C16_NoneWins ==
    \A i \in Ids :
        (Filled(i) /\ results[i][1].error = None /\ L_none \in Tokens(Inner(results[i][1].xml)))
            => results[i][1].pred_labels = {}

\* the answer <xml>pii,none</xml>: a label before the sentinel
C16_Witness ==
    \E i \in Ids :
        /\ Filled(i)
        /\ results[i][1].xml = <<"<","x","m","l",">","p","i","i",",","n","o","n","e","<","/","x","m","l",">">>
        /\ results[i][1].pred_labels = {}

\* C17: when the answer block holds the very string of the record's
\* classification field, the ground-truth label set of the output row equals
\* its predicted label set, also when "none" stands next to other labels
C17_SameNormalizer ==
    (pc = "done" /\ records[0].classification.type = "str"
        /\ reply[0] = OpenTag \o records[0].classification.s \o CloseTag
        /\ results[0][1].error = None)
    => enriched[1].gt_labels = enriched[1].pred_labels

\* the classification field is missing, not a string, empty or whitespace-only
BlankClass(rec) ==
    \/ rec.classification.type # "str"
    \/ \A k \in 1..Len(rec.classification.s) : rec.classification.s[k] \in Whitespace

\* C18: a record whose classification field is missing, not a string, empty
\* or whitespace-only has the empty ground-truth label set in its output row
\* and adds nothing to the ground-truth counters; both passes over it
\* complete
C18_BlankGroundTruth ==
    /\ \A k \in 1..Len(enriched) :
          BlankClass(records[k - 1]) => enriched[k].gt_labels = {}
    /\ (pc = "done" /\ \A i \in Ids : BlankClass(records[i])) =>
          /\ num_any_gt = 0
          /\ num_false_neg_records = 0
          /\ \A l \in Labels : gt_label_freq[l] = 0 /\ tp_label[l] = 0 /\ fn_label[l] = 0
          /\ num_done = N
          /\ sem_num_done = N

\* the run of a record whose classification field is a number has ended
C18_Witness ==
    /\ pc = "done"
    /\ records[0].classification.type = "other"
    /\ enriched[1].gt_labels = {}
    /\ enriched[1].error = None

\* the response holds the answer block of the label string t, alone or with
\* prose before and after it
HoldsBlock(content, t) ==
    \/ \E pre \in ProseBefore, post \in ProseAfter :
          content = pre \o OpenTag \o t \o CloseTag \o post
    \/ content = <<"<","X","M","L",">">> \o t \o <<"<","/","X","M","L",">">>

\* the label set that the taxonomy tokens of a label string stand for
LabelsOf(t) ==
    IF L_none \in Tokens(t) THEN {} ELSE Tokens(t) \cap (ALLOWED_LABELS \ {L_none})

\* C19: for a response that holds a well-formed answer block, the predicted
\* label set is the set of taxonomy tokens of the block, whatever prose
\* surrounds the block and whatever the case, spacing and order of the tokens
C19_BlockOnly ==
    (Filled(0) /\ last[0] = "ok" /\ HoldsBlock(reply[0], records[0].classification.s))
        => results[0][1].pred_labels = LabelsOf(records[0].classification.s)

\* the five labels of the taxonomy
Taxonomy == {L_credentials, L_network_identifiers, L_pii, L_conflict, L_peerreview}

NoDuplicates(list) ==
    \A a \in 1..Len(list), b \in 1..Len(list) : a # b => list[a] # list[b]

\* C20: the predicted labels of every result a worker returned, of every
\* stored result and of every output row, and the ground-truth labels of
\* every output row, are sets of labels of the taxonomy; "none" is never one
\* of them and is never counted
C20_LabelsInTaxonomy ==
    /\ \A i \in Ids :
          /\ Filled(i) => /\ results[i][1].pred_labels \subseteq Taxonomy
                          /\ NoDuplicates(pred_table[results[i][1].xml])
          /\ NoDuplicates(gt_table[records[i]])
          /\ (fut[i].state = "FINISHED" /\ fut[i].exception = None) =>
                fut[i].result[1].pred_labels \subseteq Taxonomy
    /\ \A k \in 1..Len(enriched) :
          /\ enriched[k].pred_labels \subseteq Taxonomy
          /\ enriched[k].gt_labels \subseteq Taxonomy
          /\ Cardinality(enriched[k].pred_labels) <= Cardinality(Taxonomy)
    /\ pred_label_freq[L_none] = 0
    /\ gt_label_freq[L_none] = 0
    /\ sem_pred_label_freq[L_none] = 0

\* the output row of the label string "pii,pii" answered inside prose
C20_Witness ==
    /\ pc = "done"
    /\ records[0].classification.s = <<"p","i","i",",","p","i","i">>
    /\ reply[0] = <<"o","k"," ","<","x","m","l",">","p","i","i",",","p","i","i","<","/","x","m","l",">"," ","b","y","e">>
    /\ enriched[1].gt_labels = {L_pii}
    /\ enriched[1].pred_labels = {L_pii}

\* the output rows in which label l is a true positive, a false positive, a
\* false negative
RowsTP(l) == {k \in 1..Len(enriched) : l \in enriched[k].pred_labels /\ l \in enriched[k].gt_labels}
RowsFP(l) == {k \in 1..Len(enriched) : l \in enriched[k].pred_labels /\ l \notin enriched[k].gt_labels}
RowsFN(l) == {k \in 1..Len(enriched) : l \notin enriched[k].pred_labels /\ l \in enriched[k].gt_labels}

\* C21: during and after the final pass, for every label, TP + FP is the
\* number of predictions of the label and TP + FN the number of its
\* ground-truth occurrences, TP, FP and FN counting the records that have the
\* label in both sets, in the predicted set only, in the ground truth only
C21_PerLabelSums ==
    \A l \in Labels :
        /\ tp_label[l] + fp_label[l] = pred_label_freq[l]
        /\ tp_label[l] + fn_label[l] = gt_label_freq[l]
        /\ tp_label[l] = Cardinality(RowsTP(l))
        /\ fp_label[l] = Cardinality(RowsFP(l))
        /\ fn_label[l] = Cardinality(RowsFN(l))

\* two records: credentials once predicted in excess and once missed, pii
\* right both times
C21_Witness ==
    /\ pc = "done"
    /\ N = 2
    /\ fp_label[L_credentials] = 1
    /\ fn_label[L_credentials] = 1
    /\ tp_label[L_pii] = 2

\* the rule of the claim for a pair of sets
HitRule(p, g) == (\E l \in p : l \in g) \/ (COUNT_NONE_AS_HIT /\ p = {} /\ g = {})
ExactRule(p, g) == (p \subseteq g) /\ (g \subseteq p)

\* a live update counts the record being collected by the rule
C22_Live ==
    sem_num_done' # sem_num_done =>
        LET p == results[cur][1].pred_labels
            g == set(parse_ground_truth_labels(records[cur]))
        IN  /\ sem_num_hit_incl_none' - sem_num_hit_incl_none = (IF HitRule(p, g) THEN 1 ELSE 0)
            /\ sem_num_exact' - sem_num_exact = (IF ExactRule(p, g) THEN 1 ELSE 0)

\* an iteration of the final pass counts its record by the rule
C22_Final ==
    num_done' # num_done =>
        LET p == results[num_done][1].pred_labels
            g == set(parse_ground_truth_labels(records[num_done]))
        IN  /\ num_hit_incl_none' - num_hit_incl_none = (IF HitRule(p, g) THEN 1 ELSE 0)
            /\ num_exact' - num_exact = (IF ExactRule(p, g) THEN 1 ELSE 0)

\* C22: a record is counted as a hit exactly when its predicted and
\* ground-truth sets share a label or, COUNT_NONE_AS_HIT being enabled, are both
\* empty, and as an exact match exactly when the two sets are equal, by the
\* live update and by the final pass alike
C22_HitAndExactRule == [][C22_Live /\ C22_Final]_vars

\* two records counted: one a hit with two empty sets, the other a hit by a
\* shared label without being an exact match
C22_Witness ==
    /\ pc = "done"
    /\ N = 2
    /\ \E k \in 1..2 : enriched[k].pred_labels = {} /\ enriched[k].gt_labels = {}
    /\ \E k \in 1..2 : /\ enriched[k].pred_labels \cap enriched[k].gt_labels # {}
                        /\ enriched[k].pred_labels # enriched[k].gt_labels
    /\ num_hit_incl_none = 2 /\ sem_num_hit_incl_none = 2
    /\ num_exact = 1 /\ sem_num_exact = 1

\* the waits of one ask_llm run, in thousandths of a second
Waits == <<2000, 3400, 5780>>

\* C23: the wait that follows the k-th failed attempt of an ask_llm run is
\* SLEEP_BACKOFF x 1.7^(k-1), that is 2.0, 3.4, 5.78 seconds for k = 1, 2, 3,
\* whichever retryable failures came before: the delay grows by 1.7 after
\* every wait and is never reset
C23_BackoffSchedule ==
    \A i \in Ids :
        task[i].phase = "sleeping" =>
            LET k == task[i].attempt
            IN  /\ last[i] \in Retryable
                /\ k \in 1..(MAX_RETRIES - 1)
                /\ task[i].backoff * BackoffDen ^ (k - 1) = SLEEP_BACKOFF * BackoffNum ^ (k - 1)
                /\ task[i].backoff = Waits[k]

\* the third wait of a run, after an unexpected fault
C23_Witness ==
    \E i \in Ids :
        /\ task[i].phase = "sleeping"
        /\ task[i].attempt = 3
        /\ task[i].backoff = 5780
        /\ last[i] = "Exception"

\* C24: the enriched output holds one row per record passed by the final
\* pass, N rows at the end, and row i carries the fields of record i, the raw
\* answer, predicted labels and error of results[i] and the ground-truth
\* labels of record i, in whatever order the futures completed: the result in
\* row i is the one the future of record i returned
C24_RowPerRecord ==
    /\ Len(enriched) = num_done
    /\ pc = "done" => Len(enriched) = N
    /\ \A i \in 0..(Len(enriched) - 1) :
           /\ enriched[i + 1].comments = records[i].comments
           /\ enriched[i + 1].classification = records[i].classification
           /\ enriched[i + 1].xml = results[i][1].xml
           /\ enriched[i + 1].pred_labels = results[i][1].pred_labels
           /\ enriched[i + 1].error = results[i][1].error
           /\ enriched[i + 1].gt_labels = set(parse_ground_truth_labels(records[i]))
           /\ fut[i].exception = None =>
                  /\ enriched[i + 1].xml = fut[i].result[1].xml
                  /\ enriched[i + 1].pred_labels = fut[i].result[1].pred_labels
                  /\ enriched[i + 1].error = fut[i].result[1].error

\* two different records with different results, the future of record 0
\* collected last
C24_Witness ==
    /\ pc = "done"
    /\ N = 2
    /\ cur = 0
    /\ records[0] # records[1]
    /\ enriched[1].error # enriched[2].error
    /\ enriched[1].pred_labels # enriched[2].pred_labels

\* nothing has been dispatched and no metric has been computed
Untouched ==
    /\ results = <<>>
    /\ threads = 0 /\ queue = <<>>
    /\ sem_num_done = 0 /\ pbar = 0
    /\ num_done = 0 /\ enriched = <<>>

C26_RecordsReadOnly == [][records' = records]_vars

\* the run is over, every record has its row, and the records still have
\* their own fields only
C26_Witness ==
    /\ pc = "done"
    /\ N = MaxRecords
    /\ \A i \in Ids : /\ DOMAIN records[i] = {"comments", "classification"}
                       /\ records[i].comments # Missing
                       /\ enriched[i + 1].xml = results[i][1].xml

\* ask_llm is running for record i
Asking(i) == i \in Ids /\ task[i].phase \in {"inflight", "sleeping"}

\* ask_llm has run for record i and has returned
Asked(i) == i \in Ids /\ ClientEnded(i) /\ last[i] # "none"

\* what ask_llm returned has an answer or an error, never both, never neither
C27_State ==
    \A i \in Ids :
        Asked(i) =>
            LET r == fut[i].result[1]
            IN  \/ r.xml # <<>> /\ r.error = None
                \/ r.xml = <<>> /\ r.error # None

\* after the return there is no request and no wait for the record
C27_Step ==
    \A i \in Ids :
        Asked(i) => task'[i] = task[i] /\ last'[i] = last[i] /\ reply'[i] = reply[i]

\* C27: every remote call returning or raising, a run of ask_llm ends, and it
\* ends with an answer and no error or with an error and no answer, never
\* with both or neither; after it has ended no request is sent and no wait
\* is made for the record
C27_ClientTerminates ==
    /\ []C27_State
    /\ [][C27_Step]_vars
    /\ \A i \in 0..(MaxRecords - 1) : Asking(i) ~> Asked(i)

\* ask_llm has returned an error after a failure of a retryable class, which
\* takes every attempt and every wait
C27_Witness ==
    /\ Asked(0)
    /\ last[0] = "InternalServerError"
    /\ fut[0].result[1].xml = <<>>
    /\ fut[0].result[1].error = ErrorText("InternalServerError")

\* C28: a response that holds a well-formed answer block gives a result
\* without error and with the block as raw answer, whatever the block holds:
\* its predicted labels are labels of the taxonomy, the tokens outside the
\* taxonomy being dropped, and they are the empty set when the block is empty
\* or holds no token of the taxonomy
C28_BlockNeverError ==
    LET t == records[0].classification.s
    IN  (Filled(0) /\ last[0] = "ok" /\ HoldsBlock(reply[0], t)) =>
            /\ results[0][1].error = None
            /\ results[0][1].xml # <<>>
            /\ results[0][1].pred_labels \subseteq Taxonomy
            /\ strip(t) = <<>> => results[0][1].pred_labels = {}
            /\ Tokens(t) \cap ALLOWED_LABELS = {} => results[0][1].pred_labels = {}

\* the answer block "x,pii" inside prose: the unknown token is dropped, and
\* there is no error
C28_Witness ==
    /\ Filled(0)
    /\ reply[0] = <<"o","k"," ","<","x","m","l",">","x",",","p","i","i","<","/","x","m","l",">"," ","b","y","e">>
    /\ results[0][1].error = None
    /\ results[0][1].pred_labels = {L_pii}

\* C29: a worker thread constructs a client at most once, and not before its
\* first remote call; every request of the thread goes through that one
\* client, which the thread itself constructed and which no other thread uses
C29_OwnClient ==
    \A t \in Threads :
        /\ created[t] <= 1
        /\ created[t] = 1 <=> used[t] # {}
        /\ used[t] \subseteq {<<t, 1>>}
        /\ tls[t] \in {NoClient, <<t, 1>>}
        /\ \A u \in Threads : u # t => used[t] \cap used[u] = {}

\* two threads have each sent requests through their own client, one of them
\* four requests for a record that ran out of attempts
C29_Witness ==
    /\ pc = "done"
    /\ threads = 2
    /\ used[1] = {<<1, 1>>}
    /\ used[2] = {<<2, 1>>}
    /\ \E i \in Ids : Exhausted(i)

\* the responses with nothing usable in them
Unusables == {c \in Contents : Unusable(c)}

\* record i has met a terminal failure: its worker faulted, or its client
\* ended on an exception of the remote call or on a response with nothing
\* usable in it
Failed(i) ==
    \/ Faulted(i)
    \/ Asked(i) /\ last[i] \in Retryable \cup NonRetryable
    \/ Asked(i) /\ last[i] = "ok" /\ reply[i] \in Unusables

\* the stored result of a failed record has an error and no predicted label
C30_State ==
    \A i \in Ids :
        (Filled(i) /\ Failed(i)) =>
            results[i][1].pred_labels = {} /\ results[i][1].error # None

\* what the final pass counts for a failed record
C30_Step ==
    (num_done' # num_done /\ Failed(num_done)) =>
        LET g == set(gt_table[records[num_done]])
        IN  /\ enriched'[num_done + 1].pred_labels = {}
            /\ pred_label_freq' = pred_label_freq
            /\ tp_label' = tp_label /\ fp_label' = fp_label
            /\ num_any_pred' = num_any_pred
            /\ g = {} =>
                  /\ num_exact' = num_exact + 1
                  /\ num_hit_incl_none' = num_hit_incl_none + 1
                  /\ fn_label' = fn_label
                  /\ num_false_neg_records' = num_false_neg_records
            /\ g # {} =>
                  /\ num_exact' = num_exact
                  /\ num_hit_incl_none' = num_hit_incl_none
                  /\ fn_label' = [l \in Labels |-> IF l \in g THEN fn_label[l] + 1
                                                   ELSE fn_label[l]]
                  /\ num_false_neg_records' = num_false_neg_records + 1

\* C30: a record that ends in a terminal failure (retries exhausted,
\* non-retryable error, response with nothing usable, worker fault) has the
\* empty predicted set; the final pass counts it as an exact match and a hit
\* when its ground truth is empty, and otherwise as one false negative for
\* each of its ground-truth labels and neither as a match nor as a hit
C30_FailureIsEmptyPrediction == []C30_State /\ [][C30_Step]_vars

\* two failed records counted: one without ground truth whose retries ran
\* out, one with two ground-truth labels whose response was unusable
C30_Witness ==
    /\ pc = "done"
    /\ N = 2
    /\ \E i, j \in Ids :
          /\ Exhausted(i) /\ enriched[i + 1].gt_labels = {}
          /\ Asked(j) /\ last[j] = "ok" /\ reply[j] = AnswerBad
          /\ enriched[j + 1].gt_labels = {L_credentials, L_pii}
    /\ num_exact = 1 /\ num_hit_incl_none = 1
    /\ fn_label[L_credentials] = 1 /\ fn_label[L_pii] = 1

\* C31: COUNT_NONE_AS_HIT being enabled, at every moment of the live update
\* and of the final pass the exact matches are at most the hits, the hits at
\* most the records counted, the records counted at most N, and in the final
\* pass the hits on a shared label are at most the hits
C31_CounterOrder ==
    /\ COUNT_NONE_AS_HIT
    /\ sem_num_exact <= sem_num_hit_incl_none
    /\ sem_num_hit_incl_none <= sem_num_done
    /\ sem_num_done <= N
    /\ num_exact <= num_hit_incl_none
    /\ num_hit_incl_none <= num_done
    /\ num_done <= N
    /\ num_hit_nonempty <= num_hit_incl_none

\* the final pass between its two records: the live counters stand at one
\* exact match among two hits, the final ones at one hit that is no match
C31_Witness ==
    /\ pc = "final"
    /\ N = 2
    /\ sem_num_done = 2 /\ sem_num_hit_incl_none = 2 /\ sem_num_exact = 1
    /\ num_done = 1 /\ num_hit_incl_none = 1 /\ num_exact = 0
    /\ num_hit_nonempty = 1

\* the live rates have been computed, from a count of at least one record
C32_Live ==
    running # <<>> =>
        /\ sem_num_done >= 1
        /\ running.acc = <<sem_num_exact * 100, sem_num_done>>
        /\ running.hit = <<sem_num_hit_incl_none * 100, sem_num_done>>

\* the report has been computed, from the count of all N >= 1 records, and
\* the precision and the recall of a label are 0 when TP+FP, TP+FN are 0
C32_Final ==
    /\ pc = "report" => num_done = N /\ N >= 1
    /\ pc = "done" => report # <<>>
    /\ report # <<>> =>
          /\ num_done = N /\ N >= 1
          /\ report[1].exact = <<num_exact, N>>
          /\ report[1].hit = <<num_hit_incl_none, N>>
          /\ \A l \in DOMAIN report[1].prec :
                /\ report[1].prec[l] = IF tp_label[l] + fp_label[l] = 0 THEN <<0, 1>>
                                       ELSE <<tp_label[l], tp_label[l] + fp_label[l]>>
                /\ report[1].rec[l] = IF tp_label[l] + fn_label[l] = 0 THEN <<0, 1>>
                                      ELSE <<tp_label[l], tp_label[l] + fn_label[l]>>

\* C32: no rate is ever computed with a zero denominator and the run never
\* ends on a division by zero: the live rates are computed after
\* sem_num_done has become at least 1, the final rates with num_done = N >= 1,
\* and the precision and recall of a label are 0 when TP+FP, TP+FN are 0
C32_NoDivisionByZero ==
    /\ pc # "crashed"
    /\ C32_Live
    /\ C32_Final

\* the report of a run in which credentials was never predicted and was
\* missed once: its precision has a zero denominator and is 0, its recall is
\* 0 of 1
C32_Witness ==
    /\ pc = "done"
    /\ L_credentials \in DOMAIN report[1].prec
    /\ tp_label[L_credentials] + fp_label[L_credentials] = 0
    /\ report[1].prec[L_credentials] = <<0, 1>>
    /\ fn_label[L_credentials] = 1
    /\ report[1].rec[L_credentials] = <<0, 1>>
    /\ running.acc = <<0, 1>>
====
